---- MODULE Spec2Model ----
(***************************************************************************)
(* Model of the fht-simulations repository.                                *)
(*                                                                         *)
(*   Spec       FractalKahlerManifold (src/fractal_kahler_manifold.py):    *)
(*              construction, get_christoffel, parallel_transport and      *)
(*              compute_holonomy.                                          *)
(*   SpecDepth3 run_depth3_simulation (src/depth3_simulation.py).          *)
(*   SpecRepeat a caller that keeps one result and repeats calls on one    *)
(*              manifold.                                                  *)
(*   SpecPotential a process that constructs several manifolds while other *)
(*              code draws from the process-wide random generator.         *)
(*   SpecFractals cantor_dust_mask (src/fractal_entanglement_2d.py),       *)
(*              generate_menger_sponge and the Sierpinski carpet walk of   *)
(*              src/examples.                                              *)
(*   SpecMatrices von_neumann_entropy, su2_rotation, apply_holonomy and    *)
(*              layer_hopping_holonomy.                                    *)
(*                                                                         *)
(* Floating-point numbers are modelled as fixed-point values with SCALE    *)
(* units per 1.0, rounded to nearest after every multiplication and        *)
(* division, together with the IEEE special values NaN, +inf and -inf.     *)
(***************************************************************************)
EXTENDS Integers, Sequences, FiniteSets

(***************************************************************************)
(* Floating-point numbers                                                  *)
(***************************************************************************)

\* Fixed-point units per 1.0.
SCALE == 1000

\* The largest finite magnitude, in units: a result beyond it overflows to
\* an infinity, as a float64 result beyond the largest double does.
FMAX == 46340

\* np.pi in units; 2 * np.pi (6.2832) and np.pi / 2 (1.5708) rounded.
PI == 3142
TWO_PI == 2 * PI - 1
HALF_PI == PI \div 2

Fin(n) == [k |-> "fin", v |-> n]
NaN == [k |-> "nan", v |-> 0]
Inf(s) == [k |-> "inf", v |-> s]

\* The float of n units, overflowing to +inf or -inf.
Mk(n) == IF n > FMAX THEN Inf(1) ELSE IF n < -FMAX THEN Inf(-1) ELSE Fin(n)

IsFin(a) == a.k = "fin"
IsNaN(a) == a.k = "nan"
IsInf(a) == a.k = "inf"

Abs(n) == IF n < 0 THEN -n ELSE n
Sgn(n) == IF n < 0 THEN -1 ELSE IF n > 0 THEN 1 ELSE 0

\* a / b rounded to the nearest integer (ties away from zero), b # 0.
RoundDiv(a, b) ==
  Sgn(a) * Sgn(b) * ((2 * Abs(a) + Abs(b)) \div (2 * Abs(b)))

\* The sign of a float: -1, 0 or 1 (NaN has none and is never asked).
FSgn(a) == IF IsInf(a) THEN a.v ELSE Sgn(a.v)

FNeg(a) ==
  CASE IsNaN(a) -> NaN
    [] IsInf(a) -> Inf(-a.v)
    [] OTHER    -> Fin(-a.v)

FAdd(a, b) ==
  CASE IsNaN(a) \/ IsNaN(b) -> NaN
    [] IsInf(a) /\ IsInf(b) -> IF a.v = b.v THEN a ELSE NaN
    [] IsInf(a)             -> a
    [] IsInf(b)             -> b
    [] OTHER                -> Mk(a.v + b.v)

FSub(a, b) == FAdd(a, FNeg(b))

FMul(a, b) ==
  CASE IsNaN(a) \/ IsNaN(b) -> NaN
    [] IsInf(a) \/ IsInf(b) ->
         IF FSgn(a) * FSgn(b) = 0 THEN NaN ELSE Inf(FSgn(a) * FSgn(b))
    [] OTHER                -> Mk(RoundDiv(a.v * b.v, SCALE))

FDiv(a, b) ==
  CASE IsNaN(a) \/ IsNaN(b) -> NaN
    [] IsInf(a) /\ IsInf(b) -> NaN
    [] IsInf(a)             -> Inf(IF b.v < 0 THEN -a.v ELSE a.v)
    [] IsInf(b)             -> Fin(0)
    [] b.v = 0              -> IF a.v = 0 THEN NaN ELSE Inf(Sgn(a.v))
    [] OTHER                -> Mk(RoundDiv(a.v * SCALE, b.v))

\* a < b; every comparison with NaN is false.
FLt(a, b) ==
  CASE IsNaN(a) \/ IsNaN(b) -> FALSE
    [] IsInf(a) /\ IsInf(b) -> a.v < b.v
    [] IsInf(a)             -> a.v < 0
    [] IsInf(b)             -> b.v > 0
    [] OTHER                -> a.v < b.v

FLe(a, b) == ~IsNaN(a) /\ ~IsNaN(b) /\ ~FLt(b, a)

FAbs(a) ==
  CASE IsNaN(a) -> NaN
    [] IsInf(a) -> Inf(1)
    [] OTHER    -> Fin(Abs(a.v))

\* The largest r with r * r <= n, n >= 0.
RECURSIVE ISqrtIn(_, _, _)
ISqrtIn(n, lo, hi) ==
  IF lo >= hi THEN lo
  ELSE LET mid == (lo + hi + 1) \div 2
       IN IF mid * mid <= n THEN ISqrtIn(n, mid, hi) ELSE ISqrtIn(n, lo, mid - 1)

ISqrt(n) == ISqrtIn(n, 0, IF n < FMAX THEN n ELSE FMAX)

FSqrt(a) ==
  CASE IsNaN(a)            -> NaN
    [] IsInf(a)            -> IF a.v > 0 THEN a ELSE NaN
    [] a.v < 0             -> NaN
    [] OTHER               -> Fin(ISqrt(a.v * SCALE))

\* np.sin on a reduced argument r in -HALF_PI..HALF_PI: the Taylor series
\* r - r^3/3! + r^5/5! - r^7/7! in fixed point.
SinPoly(r) ==
  LET r2 == RoundDiv(r * r, SCALE)
      t3 == RoundDiv(r * r2, 6 * SCALE)
      t5 == RoundDiv(t3 * r2, 20 * SCALE)
      t7 == RoundDiv(t5 * r2, 42 * SCALE)
      s  == r - t3 + t5 - t7
  IN IF s > SCALE THEN SCALE ELSE IF s < -SCALE THEN -SCALE ELSE s

\* np.sin: the argument is reduced to [-PI, PI), then folded into
\* [-HALF_PI, HALF_PI].
SinV(v) ==
  LET r == ((v + PI) % TWO_PI) - PI
      f == IF r > HALF_PI THEN PI - r ELSE IF r < -HALF_PI THEN -PI - r ELSE r
  IN SinPoly(f)

CosV(v) == SinV(v + HALF_PI)

Sin(a) == IF IsFin(a) THEN Fin(SinV(a.v)) ELSE NaN
Cos(a) == IF IsFin(a) THEN Fin(CosV(a.v)) ELSE NaN

\* The smallest angle a in lo..hi with cos(a) <= c (cos is decreasing there).
RECURSIVE ArcCosIn(_, _, _)
ArcCosIn(c, lo, hi) ==
  IF lo >= hi THEN lo
  ELSE LET mid == (lo + hi) \div 2
       IN IF CosV(mid) <= c THEN ArcCosIn(c, lo, mid) ELSE ArcCosIn(c, mid + 1, hi)

\* np.arccos: NaN outside [-1, 1], a value in [0, PI] inside.
ArcCos(a) ==
  CASE ~IsFin(a)                    -> NaN
    [] a.v > SCALE \/ a.v < -SCALE  -> NaN
    [] a.v >= 0                     -> Fin(ArcCosIn(a.v, 0, HALF_PI))
    [] OTHER                        -> Fin(PI - ArcCosIn(-a.v, 0, HALF_PI))

\* np.clip(a, lo, hi) = minimum(maximum(a, lo), hi); NaN propagates.
Clip(a, lo, hi) ==
  CASE IsNaN(a)   -> NaN
    [] FLt(a, lo) -> lo
    [] FLt(hi, a) -> hi
    [] OTHER      -> a

(***************************************************************************)
(* numpy helpers used by the manifold                                      *)
(***************************************************************************)

\* np.linspace(start, stop, num): num samples start + i * step with
\* step = (stop - start) / (num - 1), the last one set to stop exactly; a
\* single sample (num = 1, no division) is start.
\* Arrays are functions over 0..num-1, as numpy indexes them.
LinSpace(start, stop, num) ==
  LET delta == FSub(stop, start)
      step == IF num > 1 THEN FDiv(delta, Fin((num - 1) * SCALE)) ELSE delta
  IN [i \in 0..(num - 1) |->
        IF num > 1 /\ i = num - 1 THEN stop
        ELSE FAdd(FMul(Fin(i * SCALE), step), start)]

\* np.gradient(f, h) of a one-dimensional array f of length n >= 2 with
\* uniform spacing h: centered differences inside, one-sided at both edges.
Gradient1(f, h, n) ==
  [i \in 0..(n - 1) |->
     IF i = 0 THEN FDiv(FSub(f[1], f[0]), h)
     ELSE IF i = n - 1 THEN FDiv(FSub(f[n - 1], f[n - 2]), h)
     ELSE FDiv(FSub(f[i + 1], f[i - 1]), FMul(Fin(2 * SCALE), h))]

\* np.gradient(F, h, axis=1): along the column index ix of F[iy][ix].
GradientAxis1(F, h, n) ==
  [iy \in 0..(n - 1) |-> Gradient1(F[iy], h, n)]

\* np.gradient(F, h, axis=0): along the row index iy of F[iy][ix].
GradientAxis0(F, h, n) ==
  LET col(ix) == [iy \in 0..(n - 1) |-> F[iy][ix]]
  IN [iy \in 0..(n - 1) |-> [ix \in 0..(n - 1) |-> Gradient1(col(ix), h, n)[iy]]]

\* np.argmin(np.abs(axis - c)): the first index of the smallest distance.
ArgMinAbsBad(axis, n, c) ==
  LET d(j) == FAbs(FSub(axis[j], c))
  IN CHOOSE j \in 0..(n - 1) :
       /\ \A m \in 0..(n - 1) : ~FLt(d(j), d(m))
       /\ \A m \in 0..(j - 1) : FLt(d(m), d(j))

ArgMinAbs(axis, n, c) ==
  LET d(j) == FAbs(FSub(axis[j], c))
  IN CHOOSE j \in 0..(n - 1) :
       /\ \A m \in 0..(n - 1) : ~FLt(d(m), d(j))
       /\ \A m \in 0..(j - 1) : FLt(d(j), d(m))

(***************************************************************************)
(* FractalKahlerManifold: construction                                     *)
(***************************************************************************)

\* 2 ** l
RECURSIVE Pow2(_)
Pow2(l) == IF l = 0 THEN 1 ELSE 2 * Pow2(l - 1)

\* freq ** 1.2 for freq = 2 ** l.
Pow12(freq) ==
  CASE freq = 1 -> Fin(1000)
    [] freq = 2 -> Fin(2297)
    [] freq = 4 -> Fin(5278)
    [] freq = 8 -> Fin(12126)
    [] OTHER    -> Fin(27858)

\* The state of the process-wide generator np.random: the number of draws
\* that have been taken from it.
VARIABLE np_random

\* The l-th draw rng.uniform(0, 2 * np.pi) of np.random.RandomState(0).
PhaseBad(l) ==
  LET k == np_random + l
  IN CASE k = 0 -> Fin(3448)
       [] k = 1 -> Fin(4494)
       [] k = 2 -> Fin(3787)
       [] k = 3 -> Fin(3424)
       [] OTHER -> Fin(2662)

Phase(l) ==
  CASE l = 0 -> Fin(3448)
    [] l = 1 -> Fin(4494)
    [] l = 2 -> Fin(3787)
    [] l = 3 -> Fin(3424)
    [] OTHER -> Fin(2662)

\* One band of the potential at the cell with coordinates (cx, cy):
\* scale * weight * (sin(freq * xx + phase) + cos(freq * yy + phase)).
BandBad(l, scl, cx, cy) ==
  LET freq   == Pow2(l)
      weight == FDiv(Fin(SCALE), Pow12(freq))
      phase  == Phase(l)
  IN FMul(weight,
          FAdd(Sin(FAdd(FMul(Fin(freq * SCALE), cx), phase)),
               Cos(FAdd(FMul(Fin(freq * SCALE), cy), phase))))

Band(l, scl, cx, cy) ==
  LET freq   == Pow2(l)
      weight == FDiv(Fin(SCALE), Pow12(freq))
      phase  == Phase(l)
  IN FMul(FMul(scl, weight),
          FAdd(Sin(FAdd(FMul(Fin(freq * SCALE), cx), phase)),
               Cos(FAdd(FMul(Fin(freq * SCALE), cy), phase))))

\* K after the bands l = 0..level-1 have been added to the zero field.
RECURSIVE PotentialCell(_, _, _, _)
PotentialCell(level, scl, cx, cy) ==
  IF level = 0 THEN Fin(0)
  ELSE FAdd(PotentialCell(level - 1, scl, cx, cy), Band(level - 1, scl, cx, cy))

generate_fractal_potential(xs, ys, n, level, scl) ==
  [iy \in 0..(n - 1) |-> [ix \in 0..(n - 1) |-> PotentialCell(level, scl, xs[ix], ys[iy])]]

\* g = 0.25 * (d2K/dx2 + d2K/dy2) by np.gradient applied twice per axis.
compute_metric_from_potential(xs, ys, n, Kf) ==
  LET dx == FSub(xs[1], xs[0])
      dy == FSub(ys[1], ys[0])
      d2K_dx2 == GradientAxis1(GradientAxis1(Kf, dx, n), dx, n)
      d2K_dy2 == GradientAxis0(GradientAxis0(Kf, dy, n), dy, n)
  IN [iy \in 0..(n - 1) |-> [ix \in 0..(n - 1) |->
        FMul(Fin(SCALE \div 4), FAdd(d2K_dx2[iy][ix], d2K_dy2[iy][ix]))]]

\* Gamma^x_xx = 0.5 * dg/dx / g and Gamma^y_yy = 0.5 * dg/dy / g, cell by cell,
\* with no test of the divisor.
compute_christoffel(xs, ys, n, gf) ==
  LET dx == FSub(xs[1], xs[0])
      dy == FSub(ys[1], ys[0])
      dg_dx == GradientAxis1(gf, dx, n)
      dg_dy == GradientAxis0(gf, dy, n)
  IN [Gamma_x_xx |-> [iy \in 0..(n - 1) |-> [ix \in 0..(n - 1) |->
                        FDiv(FMul(Fin(SCALE \div 2), dg_dx[iy][ix]), gf[iy][ix])]],
      Gamma_y_yy |-> [iy \in 0..(n - 1) |-> [ix \in 0..(n - 1) |->
                        FDiv(FMul(Fin(SCALE \div 2), dg_dy[iy][ix]), gf[iy][ix])]]]

(***************************************************************************)
(* FractalKahlerManifold: sampling, transport, holonomy                    *)
(***************************************************************************)

\* get_christoffel(x, y): the two connection values of the nearest grid cell.
get_christoffelBad(xs, ys, n, Gam, cx, cy) ==
  LET ix == ArgMinAbs(xs, n, cx)
      iy == ArgMinAbs(ys, n, cy)
  IN [Gamma_x_xx |-> Gam.Gamma_x_xx[ix][iy],
      Gamma_y_yy |-> Gam.Gamma_y_yy[ix][iy]]

get_christoffel(xs, ys, n, Gam, cx, cy) ==
  LET ix == ArgMinAbs(xs, n, cx)
      iy == ArgMinAbs(ys, n, cy)
  IN [Gamma_x_xx |-> Gam.Gamma_x_xx[iy][ix],
      Gamma_y_yy |-> Gam.Gamma_y_yy[iy][ix]]

\* The path velocity along coordinate c (1 = x, 2 = y) at loop index j:
\* forward difference at j = 0, centered difference afterwards.
PathVelocityBad(pts, j, c, dt) ==
  FDiv(FSub(pts[j + 1][c], pts[j][c]), dt)

PathVelocity(pts, j, c, dt) ==
  IF j = 0
  THEN FDiv(FSub(pts[j + 1][c], pts[j][c]), dt)
  ELSE FDiv(FSub(pts[j + 1][c], pts[j - 1][c]), FMul(Fin(2 * SCALE), dt))

\* One component of one loop iteration: dvdt = -gamma * v * dudt and the new
\* sample v + dvdt * dt.
EulerStepBad(v, gamma, dudt, dt) ==
  FAdd(v, FMul(FMul(FMul(gamma, v), dudt), dt))

EulerStep(v, gamma, dudt, dt) ==
  FAdd(v, FMul(FMul(FMul(FNeg(gamma), v), dudt), dt))

\* np.dot and np.linalg.norm of vectors of two components.
Dot(a, b) == FAdd(FMul(a[1], b[1]), FMul(a[2], b[2]))
Norm(a) == FSqrt(FAdd(FMul(a[1], a[1]), FMul(a[2], a[2])))

\* The signed holonomy angle of compute_holonomy from the initial and the
\* final vector.
HolonomyAngleBad(v_initial, v_final) ==
  LET cos_theta == Clip(FDiv(Dot(v_initial, v_final),
                             FMul(Norm(v_initial), Norm(v_final))),
                        Fin(-SCALE), Fin(SCALE))
      angle == ArcCos(cos_theta)
      cross == FSub(FMul(v_initial[1], v_final[2]), FMul(v_initial[2], v_final[1]))
  IN IF FLt(Fin(0), cross) THEN FNeg(angle) ELSE angle

HolonomyAngle(v_initial, v_final) ==
  LET dot == Dot(v_initial, v_final)
      norm0 == Norm(v_initial)
      norm1 == Norm(v_final)
      cos_theta == Clip(FDiv(dot, FMul(norm0, norm1)), Fin(-SCALE), Fin(SCALE))
      angle == ArcCos(cos_theta)
      cross == FSub(FMul(v_initial[1], v_final[2]), FMul(v_initial[2], v_final[1]))
  IN IF FLt(cross, Fin(0)) THEN FNeg(angle) ELSE angle

\* The rotation matrix [[cos a, -sin a], [sin a, cos a]].
RotationMatrix(angle) ==
  <<<<Cos(angle), FNeg(Sin(angle))>>, <<Sin(angle), Cos(angle)>>>>

(***************************************************************************)
(* depth3_simulation: complex numbers, matrices, the driver's helpers      *)
(***************************************************************************)

\* Complex numbers are pairs <<re, im>>; the driver's phases, vectors and
\* matrix entries are taken with integer parts, so products are exact.
CMul(a, b) == <<a[1] * b[1] - a[2] * b[2], a[1] * b[2] + a[2] * b[1]>>
CAdd(a, b) == <<a[1] + b[1], a[2] + b[2]>>

\* np.degrees(np.angle(z)) for z on one of the eight directions that are
\* multiples of 45 degrees: the principal value in (-180, 180]; angle(0) = 0.
AngleDegrees(z) ==
  CASE z[2] = 0 /\ z[1] >= 0     -> 0
    [] z[2] = 0                  -> 180
    [] z[1] = 0 /\ z[2] > 0      -> 90
    [] z[1] = 0                  -> -90
    [] z[1] > 0 /\ z[2] = z[1]   -> 45
    [] z[1] > 0                  -> -45
    [] z[2] > 0                  -> 135
    [] OTHER                     -> -135

\* A @ B for 2x2 complex matrices.
MatMul(A, B) ==
  [r \in 1..2 |-> [c \in 1..2 |->
     CAdd(CMul(A[r][1], B[1][c]), CMul(A[r][2], B[2][c]))]]

\* total_phase = phase1 * phase2 * phase3
TotalPhaseBad(phase1, phase2, phase3) == CMul(phase1, phase2)

TotalPhase(phase1, phase2, phase3) == CMul(CMul(phase1, phase2), phase3)

\* total_matrix = M3 @ M2 @ M1
TotalMatrixBad(M1, M2, M3) == MatMul(MatMul(M1, M2), M3)

TotalMatrix(M1, M2, M3) == MatMul(MatMul(M3, M2), M1)

\* current_vec = (v_z[-1], v_zc[-1]): the last sample of both components.
LastSampleBad(v_z, v_zc) == <<v_z[1], v_zc[1]>>

LastSample(v_z, v_zc) == <<v_z[Len(v_z)], v_zc[Len(v_zc)]>>

\* init_vec = (1.0 + 0j, 1.0 - 0j)
init_vec == <<<<1, 0>>, <<1, 0>>>>

\* What ComplexKahlerManifold.compute_holonomy_complex may return for a loop
\* and an initial vector: a unit phase factor, a unitary matrix and the two
\* trajectory components, of which the first sample is the initial vector.
\* A trajectory is kept as its first and its last sample.
UnitPhases == {<<1, 0>>, <<0, 1>>, <<-1, 0>>, <<0, -1>>}
UnitaryMatrices ==
  {<<<<<<1, 0>>, <<0, 0>>>>, <<<<0, 0>>, <<1, 0>>>>>>,
   <<<<<<0, 1>>, <<0, 0>>>>, <<<<0, 0>>, <<0, -1>>>>>>,
   <<<<<<0, 0>>, <<1, 0>>>>, <<<<-1, 0>>, <<0, 0>>>>>>}
FinalSamples == {<<<<0, 1>>, <<0, -1>>>>, <<<<-1, 0>>, <<-1, 0>>>>}

compute_holonomy_complex(initial_vector) ==
  {[phase |-> ph, M |-> m,
    v_z |-> <<initial_vector[1], f[1]>>,
    v_zc |-> <<initial_vector[2], f[2]>>] :
      ph \in UnitPhases, m \in UnitaryMatrices, f \in FinalSamples}

(***************************************************************************)
(* State                                                                   *)
(***************************************************************************)

\* Bounds of the explored inputs.
MaxSize == 4
MaxLevel == 1
MaxSteps == 3

Sizes == 0..MaxSize
Levels == 0..MaxLevel
Scales == {Fin(0), Fin(SCALE)}
StepCounts == 0..MaxSteps

\* Coordinates a curve may return (inside and outside the grid square) and
\* the initial tangent vectors.
CurvePoints ==
  {<<Fin(-1900), Fin(2500)>>, <<Fin(500), Fin(-300)>>}

\* Coordinates get_christoffel is asked for: below, inside and above the
\* axis range [-2, 2], and midway between two grid samples.
Coordinates == {Fin(-2500), Fin(-1900), Fin(0), Fin(500), Fin(2500)}
InitialVectors ==
  {<<Fin(SCALE), Fin(0)>>, <<Fin(0), Fin(0)>>, <<Fin(SCALE), Fin(SCALE)>>,
   <<Fin(SCALE), Fin(-SCALE)>>}

NoCall == [op |-> "none"]
NoRet == [kind |-> "none"]
NoGamma == [Gamma_x_xx |-> <<>>, Gamma_y_yy |-> <<>>]
NoKept == [call |-> NoCall, ret |-> NoRet]

VARIABLES
  pc,       \* "new", "ready", "transport" (inside the loop), "returned"
            \* (a call has ended, its outcome is with the caller) or "failed"
  raised,   \* the exception the last operation raised, or "none"
  size, fractal_level, scale,   \* constructor arguments
  x, y,     \* grid axes
  K, g,     \* potential and metric fields, indexed [iy][ix]
  Gamma,    \* connection fields
  call,     \* the call in progress or last finished
  t_span, points, vx, vy, i,     \* locals of parallel_transport
  velocity, \* the path velocities (dxdt, dydt) the loop has estimated so
            \* far, by the sample they were estimated at
  ret,      \* what the last finished call returned
  d_pc,     \* run_depth3_simulation: "start", "loop1", "loop2", "loop3"
            \* (that loop's results are stored) or "done"
  d_calls,  \* the compute_holonomy_complex calls made so far, in order
  d_rets,   \* what each of those calls returned
  current_vec,   \* the vector a loop is started from
  results,  \* the results dictionary
  built,    \* the manifolds a process has constructed, in order
  kept,     \* a call and its result that the caller has kept
  f_pc,     \* the lattice generator or walk in progress, or "idle"
  cantor,   \* cantor_dust_mask: the depth asked for and the mask so far
  sponge,   \* generate_menger_sponge: the level asked for and the cubes so far
  walk,     \* the Sierpinski-carpet walk: depth, time step and walkers
  m_pc,     \* the matrix function in progress, or "idle"
  spectrum, \* von_neumann_entropy: rho, its eigenvalues and the result
  su2,      \* su2_rotation: its arguments and the matrix returned
  fold      \* apply_holonomy and layer_hopping_holonomy on one path

manifold == <<size, fractal_level, scale, x, y, K, g, Gamma>>
locals == <<t_span, points, vx, vy, i, velocity>>
kahler == <<pc, raised, manifold, call, locals, ret>>
depth3 == <<d_pc, d_calls, d_rets, current_vec, results>>
process == <<np_random, built>>
fractals == <<f_pc, cantor, sponge, walk>>
matrices == <<m_pc, spectrum, su2, fold>>
library == <<fractals, matrices>>
others == <<depth3, process, kept, library>>
vars == <<kahler, depth3, process, kept, library>>

Init ==
  /\ pc = "new"
  /\ raised = "none"
  /\ size = 0 /\ fractal_level = 0 /\ scale = Fin(0)
  /\ x = <<>> /\ y = <<>> /\ K = <<>> /\ g = <<>>
  /\ Gamma = NoGamma
  /\ call = NoCall
  /\ t_span = <<>> /\ points = <<>> /\ vx = <<>> /\ vy = <<>> /\ i = 0
  /\ velocity = <<>>
  /\ ret = NoRet
  /\ d_pc = "start"
  /\ d_calls = <<>>
  /\ d_rets = <<>>
  /\ current_vec = init_vec
  /\ results = <<>>
  /\ np_random = 0
  /\ built = <<>>
  /\ kept = NoKept
  /\ f_pc = "idle"
  /\ cantor = NoCall
  /\ sponge = NoCall
  /\ walk = NoCall
  /\ m_pc = "idle"
  /\ spectrum = NoCall
  /\ su2 = NoCall
  /\ fold = NoCall

\* FractalKahlerManifold(size, fractal_level, scale): the arguments, the grid
\* and the potential are stored, then the metric and the connection.  With
\* size < 2 the axis spacing x[1] - x[0] of the metric raises IndexError
\* after the grid and the potential have been built, and no object is
\* produced.
Construct(n, level, scl) ==
  /\ pc = "new"
  /\ LET xs == LinSpace(Fin(-2 * SCALE), Fin(2 * SCALE), n)
         ys == LinSpace(Fin(-2 * SCALE), Fin(2 * SCALE), n)
         Kf == generate_fractal_potential(xs, ys, n, level, scl)
     IN /\ size' = n /\ fractal_level' = level /\ scale' = scl
        /\ x' = xs /\ y' = ys
        /\ K' = Kf
        /\ IF n < 2
           THEN /\ pc' = "failed"
                /\ raised' = "IndexError"
                /\ UNCHANGED <<g, Gamma>>
           ELSE LET gf == compute_metric_from_potential(xs, ys, n, Kf)
                IN /\ g' = gf
                   /\ Gamma' = compute_christoffel(xs, ys, n, gf)
                   /\ pc' = "ready"
                   /\ raised' = "none"
  /\ UNCHANGED <<call, locals, ret, others>>

\* The parameters np.linspace(0, 1, steps) samples.
TSpanBad(steps) == [j \in 0..(steps - 1) |-> Fin(RoundDiv(j * SCALE, steps))]

TSpan(steps) == LinSpace(Fin(0), Fin(SCALE), steps)
Curves(steps) == [{TSpan(steps)[j].v : j \in 0..(steps - 1)} -> CurvePoints]

\* The parameters [curve(t) for t in t_span] calls the curve with, in the
\* order of the calls.
Evaluations(steps) == [k \in 1..steps |-> TSpan(steps)[k - 1]]

\* Entry of parallel_transport, called directly (op = "parallel_transport")
\* or from compute_holonomy: t_span, points and the zeroed trajectory whose
\* first sample is the initial vector.  With steps = 0 storing that sample
\* raises IndexError.
Enter(op, curve, initial_vector, steps) ==
  /\ pc = "ready"
  /\ call' = [op |-> op, curve |-> curve, initial_vector |-> initial_vector,
              steps |-> steps, evaluated |-> Evaluations(steps)]
  /\ UNCHANGED ret
  /\ IF steps = 0
     THEN /\ raised' = "IndexError"
          /\ pc' = "returned"
          /\ UNCHANGED locals
     ELSE /\ raised' = "none"
          /\ pc' = "transport"
          /\ t_span' = TSpan(steps)
          /\ points' = [j \in 0..(steps - 1) |-> curve[TSpan(steps)[j].v]]
          /\ vx' = [j \in 0..(steps - 1) |-> IF j = 0 THEN initial_vector[1] ELSE Fin(0)]
          /\ vy' = [j \in 0..(steps - 1) |-> IF j = 0 THEN initial_vector[2] ELSE Fin(0)]
          /\ i' = 0
          /\ velocity' = <<>>
  /\ UNCHANGED <<manifold, others>>

\* get_christoffel(x, y) called by the user of the manifold; the result is
\* kept with the cell [iy, ix] it was read from.
CallGetChristoffel(cx, cy) ==
  /\ pc = "ready"
  /\ call' = [op |-> "get_christoffel", x |-> cx, y |-> cy]
  /\ LET Gam == get_christoffel(x, y, size, Gamma, cx, cy)
     IN ret' = [kind |-> "christoffel",
                iy |-> ArgMinAbs(y, size, cy), ix |-> ArgMinAbs(x, size, cx),
                Gamma_x_xx |-> Gam.Gamma_x_xx, Gamma_y_yy |-> Gam.Gamma_y_yy]
  /\ pc' = "returned"
  /\ raised' = "none"
  /\ UNCHANGED <<manifold, locals, others>>

\* The body of parallel_transport assigns no attribute of the manifold: the
\* x and y it binds from points[i] are locals.
KeepManifoldBad ==
  /\ x' = [x EXCEPT ![0] = points[i][1]]
  /\ y' = [y EXCEPT ![0] = points[i][2]]
  /\ UNCHANGED <<size, fractal_level, scale, K, g, Gamma>>

KeepManifold == UNCHANGED manifold

CallTransport(curve, initial_vector, steps) ==
  Enter("parallel_transport", curve, initial_vector, steps)

CallHolonomy(loop, initial_vector, steps) ==
  Enter("compute_holonomy", loop, initial_vector, steps)

\* One iteration of "for i in range(steps - 1)".
TransportStep ==
  /\ pc = "transport"
  /\ i < call.steps - 1
  /\ LET dt == FSub(t_span[i + 1], t_span[i])
         px == points[i][1]
         py == points[i][2]
         dxdt == PathVelocity(points, i, 1, dt)
         dydt == PathVelocity(points, i, 2, dt)
         Gam == get_christoffel(x, y, size, Gamma, px, py)
     IN /\ vx' = [vx EXCEPT ![i + 1] = EulerStep(vx[i], Gam.Gamma_x_xx, dxdt, dt)]
        /\ vy' = [vy EXCEPT ![i + 1] = EulerStep(vy[i], Gam.Gamma_y_yy, dydt, dt)]
        /\ velocity' = [j \in 0..i |-> IF j = i THEN <<dxdt, dydt>> ELSE velocity[j]]
  /\ i' = i + 1
  /\ KeepManifold
  /\ UNCHANGED <<pc, raised, call, t_span, points, ret, others>>

ClearLocals ==
  /\ t_span' = <<>> /\ points' = <<>> /\ vx' = <<>> /\ vy' = <<>> /\ i' = 0
  /\ velocity' = <<>>

\* parallel_transport returns (vx, vy), points to its caller.
TransportReturn ==
  /\ pc = "transport"
  /\ call.op = "parallel_transport"
  /\ i = call.steps - 1
  /\ ret' = [kind |-> "transport", vx |-> vx, vy |-> vy, points |-> points]
  /\ pc' = "returned"
  /\ ClearLocals
  /\ UNCHANGED <<raised, manifold, call, others>>

\* compute_holonomy after its parallel_transport call has returned.
HolonomyReturnBad ==
  /\ pc = "transport"
  /\ call.op = "compute_holonomy"
  /\ i = call.steps - 1
  /\ LET v_initial == call.initial_vector
         v_final == <<vx[0], vy[0]>>
         angle == HolonomyAngle(v_initial, v_final)
     IN ret' = [kind |-> "holonomy", angle |-> angle, rot |-> RotationMatrix(angle),
                vx |-> vx, vy |-> vy, points |-> points]
  /\ pc' = "returned"
  /\ ClearLocals
  /\ UNCHANGED <<raised, manifold, call, others>>

HolonomyReturn ==
  /\ pc = "transport"
  /\ call.op = "compute_holonomy"
  /\ i = call.steps - 1
  /\ LET v_initial == call.initial_vector
         v_final == <<vx[call.steps - 1], vy[call.steps - 1]>>
         angle == HolonomyAngle(v_initial, v_final)
     IN ret' = [kind |-> "holonomy", angle |-> angle, rot |-> RotationMatrix(angle),
                vx |-> vx, vy |-> vy, points |-> points]
  /\ pc' = "returned"
  /\ ClearLocals
  /\ UNCHANGED <<raised, manifold, call, others>>

\* The caller drops the outcome of the call (results are created fresh per
\* call and the manifold keeps none of them) and may call again.
Discard ==
  /\ pc = "returned"
  /\ pc' = "ready"
  /\ raised' = "none"
  /\ call' = NoCall
  /\ ret' = NoRet
  /\ UNCHANGED <<manifold, locals, others>>

Next ==
  \/ \E n \in Sizes, level \in Levels, scl \in Scales : Construct(n, level, scl)
  \/ \E steps \in StepCounts, v \in InitialVectors :
       \E curve \in Curves(steps) : CallTransport(curve, v, steps)
  \/ \E steps \in StepCounts, v \in InitialVectors :
       \E loop \in Curves(steps) : CallHolonomy(loop, v, steps)
  \/ \E cx \in Coordinates, cy \in Coordinates : CallGetChristoffel(cx, cy)
  \/ TransportStep
  \/ TransportReturn
  \/ HolonomyReturn
  \/ Discard

Spec == Init /\ [][Next]_vars

(***************************************************************************)
(* run_depth3_simulation                                                   *)
(***************************************************************************)

\* One "loop k" block: compute_holonomy_complex(loopk, vec, steps=300) is
\* called with the current vector, its phase, angle and matrix are stored
\* under results[key], and current_vec becomes the last trajectory sample.
RunLoop(from, key, r) ==
  /\ d_pc = from
  /\ d_calls' = Append(d_calls, [loop |-> key, initial_vector |-> current_vec])
  /\ d_rets' = Append(d_rets, r)
  /\ results' = [k \in DOMAIN results \cup {key} |->
                   IF k = key
                   THEN [phase |-> r.phase,
                         angle_degrees |-> AngleDegrees(r.phase),
                         matrix |-> r.M]
                   ELSE results[k]]
  /\ current_vec' = LastSample(r.v_z, r.v_zc)
  /\ d_pc' = key
  /\ UNCHANGED <<kahler, process, kept, library>>

Loop1 == \E r \in compute_holonomy_complex(current_vec) : RunLoop("start", "loop1", r)
Loop2 == \E r \in compute_holonomy_complex(current_vec) : RunLoop("loop1", "loop2", r)
Loop3 == \E r \in compute_holonomy_complex(current_vec) : RunLoop("loop2", "loop3", r)

\* "total holonomy: multiply phase factors and compose matrices".
Total ==
  /\ d_pc = "loop3"
  /\ LET total_phase == TotalPhase(d_rets[1].phase, d_rets[2].phase, d_rets[3].phase)
     IN results' = [k \in DOMAIN results \cup {"total"} |->
                      IF k = "total"
                      THEN [phase |-> total_phase,
                            angle_degrees |-> AngleDegrees(total_phase),
                            matrix |-> TotalMatrix(d_rets[1].M, d_rets[2].M, d_rets[3].M)]
                      ELSE results[k]]
  /\ d_pc' = "done"
  /\ UNCHANGED <<kahler, d_calls, d_rets, current_vec, process, kept, library>>

NextDepth3 == Loop1 \/ Loop2 \/ Loop3 \/ Total

SpecDepth3 == Init /\ [][NextDepth3]_vars

(***************************************************************************)
(* A caller that keeps a result and repeats calls on one manifold          *)
(***************************************************************************)

\* The caller keeps the call that has just returned together with its result
\* (angle, rot, (vx, vy), points = manifold.compute_holonomy(...)) and goes
\* on to make other calls.
Keep ==
  /\ pc = "returned"
  /\ ret.kind \in {"transport", "holonomy"}
  /\ kept = NoKept
  /\ kept' = [call |-> call, ret |-> ret]
  /\ pc' = "ready"
  /\ raised' = "none"
  /\ call' = NoCall
  /\ ret' = NoRet
  /\ UNCHANGED <<manifold, locals, depth3, process, library>>

\* The calls the caller makes: the reference grid of the bounds, a single
\* sample or the longest curves, and two initial vectors.
RepeatedVectors == {v \in InitialVectors : v[1] # Fin(0) /\ v[2] # Fin(0)}
RepeatedSteps == {1, MaxSteps}

NextRepeat ==
  \/ Construct(MaxSize, MaxLevel, Fin(SCALE))
  \/ \E steps \in RepeatedSteps, v \in RepeatedVectors :
       \E curve \in Curves(steps) : CallTransport(curve, v, steps)
  \/ \E steps \in RepeatedSteps, v \in RepeatedVectors :
       \E loop \in Curves(steps) : CallHolonomy(loop, v, steps)
  \/ \E cx \in Coordinates, cy \in Coordinates : CallGetChristoffel(cx, cy)
  \/ TransportStep
  \/ TransportReturn
  \/ HolonomyReturn
  \/ Keep
  \/ Discard

SpecRepeat == Init /\ [][NextRepeat]_vars

(***************************************************************************)
(* A process that constructs several manifolds                             *)
(***************************************************************************)

\* The number of manifolds the process constructs.
MaxBuilt == 2

\* The sizes of those manifolds: the smallest grids that can be built.
SmallSizes == {n \in Sizes : n = 2 \/ n = 3}

\* Other code of the process draws from the process-wide generator (as
\* np.random.choice and np.random.randint do).
GlobalDraw ==
  /\ np_random < MaxBuilt
  /\ np_random' = np_random + 1
  /\ UNCHANGED <<kahler, depth3, built, kept, library>>

\* FractalKahlerManifold(n, level, scl) is constructed once more: its
\* potential is generated with a generator of its own, rng =
\* np.random.RandomState(0), which leaves the process-wide one alone.  The
\* manifold is listed with the state of the process-wide generator it was
\* built under.
Build(n, level, scl) ==
  /\ Len(built) < MaxBuilt
  /\ LET xs == LinSpace(Fin(-2 * SCALE), Fin(2 * SCALE), n)
         ys == LinSpace(Fin(-2 * SCALE), Fin(2 * SCALE), n)
     IN built' = Append(built,
                   [size |-> n, fractal_level |-> level, scale |-> scl,
                    K |-> generate_fractal_potential(xs, ys, n, level, scl),
                    np_random |-> np_random])
  /\ UNCHANGED <<kahler, depth3, np_random, kept, library>>

NextPotential ==
  \/ GlobalDraw
  \/ \E n \in SmallSizes, level \in Levels, scl \in Scales : Build(n, level, scl)

SpecPotential == Init /\ [][NextPotential]_vars

(***************************************************************************)
(* Lattice generators: cantor_dust_mask, generate_menger_sponge and the    *)
(* Sierpinski-carpet walk                                                  *)
(***************************************************************************)

\* The largest recursion depth of a generated mask or sponge.
MaxFractalDepth == 2

\* The walkers of the walk and the time steps it runs for.
NumWalkers == 2
MaxWalkSteps == 3

\* recursion_depth of run_sierpinski_carpet.py; grid_size is 3 ** 5.
recursion_depth == 5

\* 3 ** l
RECURSIVE Pow3(_)
Pow3(l) == IF l = 0 THEN 1 ELSE 3 * Pow3(l - 1)

\* The 3n x 3n block built from the n x n mask prev: prev in eight
\* positions, False in the central one (block row i = 1 and column j = 1).
CantorBlock(prev) ==
  LET n == Cardinality(DOMAIN prev)
  IN [r \in 0..(3 * n - 1) |-> [c \in 0..(3 * n - 1) |->
        LET bi == r \div n
            bj == c \div n
        IN IF bi = 1 /\ bj = 1 THEN FALSE ELSE prev[r % n][c % n]]]

\* cantor_dust_mask(depth) reaches its base case: depth 0 is a single True.
CantorStart(depth) ==
  /\ f_pc = "idle"
  /\ f_pc' = "cantor"
  /\ cantor' = [depth |-> depth, level |-> 0,
                mask |-> [r \in 0..0 |-> [c \in 0..0 |-> TRUE]]]
  /\ UNCHANGED <<sponge, walk, matrices, kahler, depth3, process, kept>>

\* One recursive call returns: the mask of the next level is built from
\* the mask of the level below.
CantorRefine ==
  /\ f_pc = "cantor"
  /\ cantor.level < cantor.depth
  /\ cantor' = [cantor EXCEPT !.level = @ + 1, !.mask = CantorBlock(cantor.mask)]
  /\ UNCHANGED <<f_pc, sponge, walk, matrices, kahler, depth3, process, kept>>

\* The outermost call returns its mask.
CantorReturn ==
  /\ f_pc = "cantor"
  /\ cantor.level = cantor.depth
  /\ f_pc' = "idle"
  /\ cantor' = NoCall
  /\ UNCHANGED <<sponge, walk, matrices, kahler, depth3, process, kept>>

\* The concatenation of the sequences of a sequence.
RECURSIVE Flatten(_)
Flatten(ss) == IF ss = <<>> THEN <<>> ELSE Head(ss) \o Flatten(Tail(ss))

\* The sub-cubes that replace one cube when the side becomes sz: the
\* offsets dx, dy, dz run over [0, sz, 2 * sz] in loop order, and an offset
\* triple is skipped when dx == sz or dy == sz or dz == sz.
SubCubes(cube, sz) ==
  LET offs == <<Fin(0), sz, FMul(Fin(2 * SCALE), sz)>>
      triple(t) == <<offs[((t - 1) \div 9) + 1], offs[(((t - 1) \div 3) % 3) + 1],
                     offs[((t - 1) % 3) + 1]>>
      skipped(d) == d[1] = sz \/ d[2] = sz \/ d[3] = sz
      new(d) == [pos |-> <<FAdd(cube.pos[1], d[1]), FAdd(cube.pos[2], d[2]),
                           FAdd(cube.pos[3], d[3])>>,
                 size |-> sz]
      all == [t \in 1..27 |-> triple(t)]
      kept_offsets == SelectSeq(all, LAMBDA d : ~skipped(d))
  IN [m \in 1..Len(kept_offsets) |-> new(kept_offsets[m])]

\* generate_menger_sponge(level) before its loop: one cube of size 1.
MengerStart(level) ==
  /\ f_pc = "idle"
  /\ f_pc' = "menger"
  /\ sponge' = [level |-> level, round |-> 0, size |-> Fin(SCALE),
                cubes |-> <<[pos |-> <<Fin(0), Fin(0), Fin(0)>>, size |-> Fin(SCALE)]>>]
  /\ UNCHANGED <<cantor, walk, matrices, kahler, depth3, process, kept>>

\* One iteration of "for _ in range(level)".
MengerRefine ==
  /\ f_pc = "menger"
  /\ sponge.round < sponge.level
  /\ LET sz == FDiv(sponge.size, Fin(3 * SCALE))
     IN sponge' = [sponge EXCEPT
                     !.round = @ + 1,
                     !.size = sz,
                     !.cubes = Flatten([q \in 1..Len(sponge.cubes) |->
                                          SubCubes(sponge.cubes[q], sz)])]
  /\ UNCHANGED <<f_pc, cantor, walk, matrices, kahler, depth3, process, kept>>

MengerReturn ==
  /\ f_pc = "menger"
  /\ sponge.round = sponge.level
  /\ f_pc' = "idle"
  /\ sponge' = NoCall
  /\ UNCHANGED <<cantor, walk, matrices, kahler, depth3, process, kept>>

\* is_hole(x, y, level) of make_sierpinski_carpet.
RECURSIVE is_hole(_, _, _)
is_hole(px, py, level) ==
  IF level = 0 THEN FALSE
  ELSE IF (px \div 3) % 3 = 1 /\ (py \div 3) % 3 = 1 THEN TRUE
  ELSE is_hole(px \div 3, py \div 3, level - 1)

\* lattice[px, py] of make_sierpinski_carpet(depth), for a cell of the grid.
Lattice(depth, px, py) == ~is_hole(px, py, depth)

\* The moves of Walker.move.
Moves == {<<1, 0>>, <<-1, 0>>, <<0, 1>>, <<0, -1>>}

\* The neighbours Walker.move may step to: inside the lattice and occupied.
OpenNeighbours(depth, w) ==
  {n \in {<<w.x + m[1], w.y + m[2]>> : m \in Moves} :
     /\ 0 <= n[1] /\ n[1] < Pow3(depth)
     /\ 0 <= n[2] /\ n[2] < Pow3(depth)
     /\ Lattice(depth, n[1], n[2])}

\* The script up to its simulation loop: the lattice of the given depth and
\* the walkers, all placed at (grid_size // 2, grid_size // 2).
WalkStart(depth) ==
  /\ f_pc = "idle"
  /\ f_pc' = "walk"
  /\ LET grid_size == Pow3(depth)
     IN walk' = [depth |-> depth, grid_size |-> grid_size, t |-> 0, next |-> 1,
                 walkers |-> [w \in 1..NumWalkers |->
                                [x |-> grid_size \div 2, y |-> grid_size \div 2,
                                 path |-> <<<<grid_size \div 2, grid_size \div 2>>>>]]]
  /\ UNCHANGED <<cantor, sponge, matrices, kahler, depth3, process, kept>>

\* w.move(lattice) for the next walker of the time step: the moves are
\* shuffled and the first one that leads to an open neighbour is taken, so
\* any open neighbour may be; with none the walker stays.
WalkMove ==
  /\ f_pc = "walk"
  /\ walk.t < MaxWalkSteps
  /\ LET k == walk.next
         w == walk.walkers[k]
         open == OpenNeighbours(walk.depth, w)
         last == k = NumWalkers
     IN \E n \in open \cup {<<w.x, w.y>>} :
          /\ (n = <<w.x, w.y>>) <=> (open = {})
          /\ walk' = [walk EXCEPT
                        !.walkers[k] = IF open = {} THEN w
                                       ELSE [x |-> n[1], y |-> n[2],
                                             path |-> Append(w.path, n)],
                        !.next = IF last THEN 1 ELSE k + 1,
                        !.t = IF last THEN @ + 1 ELSE @]
  /\ UNCHANGED <<f_pc, cantor, sponge, matrices, kahler, depth3, process, kept>>

\* The simulation loop has run its time steps.
WalkEnd ==
  /\ f_pc = "walk"
  /\ walk.t = MaxWalkSteps
  /\ f_pc' = "idle"
  /\ walk' = NoCall
  /\ UNCHANGED <<cantor, sponge, matrices, kahler, depth3, process, kept>>

NextFractals ==
  \/ \E depth \in 0..MaxFractalDepth : CantorStart(depth)
  \/ CantorRefine
  \/ CantorReturn
  \/ \E level \in 0..MaxFractalDepth : MengerStart(level)
  \/ MengerRefine
  \/ MengerReturn
  \/ \E depth \in {1, recursion_depth} : WalkStart(depth)
  \/ WalkMove
  \/ WalkEnd

SpecFractals == Init /\ [][NextFractals]_vars

(***************************************************************************)
(* Matrix functions: von_neumann_entropy                                   *)
(***************************************************************************)

\* Complex floats are pairs <<re, im>> of floats.
ZMk(re, im) == <<Fin(re), Fin(im)>>
ZAdd(a, b) == <<FAdd(a[1], b[1]), FAdd(a[2], b[2])>>
ZSub(a, b) == <<FSub(a[1], b[1]), FSub(a[2], b[2])>>
ZNeg(a) == <<FNeg(a[1]), FNeg(a[2])>>
ZMul(a, b) ==
  <<FSub(FMul(a[1], b[1]), FMul(a[2], b[2])),
    FAdd(FMul(a[1], b[2]), FMul(a[2], b[1]))>>
ZConj(a) == <<a[1], FNeg(a[2])>>
ZScale(r, a) == <<FMul(r, a[1]), FMul(r, a[2])>>

\* np.log(2) in units.
LN2 == 693

\* np.log of v units, v > 0: the argument is doubled or halved into
\* [0.5, 1], where ln x = 2 * (z + z^3/3 + z^5/5 + z^7/7), z = (x-1)/(x+1).
RECURSIVE LnV(_)
LnV(v) ==
  IF 2 * v < SCALE THEN LnV(2 * v) - LN2
  ELSE IF v > SCALE THEN LnV(RoundDiv(v, 2)) + LN2
  ELSE LET z  == RoundDiv((v - SCALE) * SCALE, v + SCALE)
           z2 == RoundDiv(z * z, SCALE)
           z3 == RoundDiv(z * z2, SCALE)
           z5 == RoundDiv(z3 * z2, SCALE)
           z7 == RoundDiv(z5 * z2, SCALE)
       IN 2 * z + RoundDiv(2 * z3, 3) + RoundDiv(2 * z5, 5) + RoundDiv(2 * z7, 7)

\* np.log: -inf at 0, nan below 0.
Ln(a) ==
  CASE IsNaN(a)            -> NaN
    [] IsInf(a)            -> IF a.v > 0 THEN a ELSE NaN
    [] a.v = 0             -> Inf(-1)
    [] a.v < 0             -> NaN
    [] OTHER               -> Fin(LnV(a.v))

\* np.outer(state, np.conjugate(state))
Outer(state) ==
  [r \in DOMAIN state |-> [c \in DOMAIN state |-> ZMul(state[r], ZConj(state[c]))]]

\* c * np.eye(d)
ScaledEye(c, d) ==
  [r \in 1..d |-> [q \in 1..d |-> IF r = q THEN <<c, Fin(0)>> ELSE ZMk(0, 0)]]

\* p * A + (1 - p) * B for matrices of one shape.
Mix(p, A, B) ==
  [r \in DOMAIN A |-> [c \in DOMAIN A |->
     ZAdd(ZScale(p, A[r][c]), ZScale(FSub(Fin(SCALE), p), B[r][c]))]]

\* The sequence s sorted in ascending order of its floats.
RECURSIVE SortAscending(_)
SortAscending(seq) ==
  IF seq = <<>> THEN <<>>
  ELSE LET m == CHOOSE k \in 1..Len(seq) : \A j \in 1..Len(seq) : FLe(seq[k], seq[j])
           rest == [j \in 1..(Len(seq) - 1) |-> IF j < m THEN seq[j] ELSE seq[j + 1]]
       IN <<seq[m]>> \o SortAscending(rest)

\* np.linalg.eigvalsh(rho), ascending: the diagonal of a diagonal matrix;
\* for a 2 x 2 Hermitian matrix [[a, b], [conj b, d]] the two roots
\* (a + d)/2 -+ sqrt(((a - d)/2)^2 + |b|^2).  Only the lower triangle and the
\* real part of the diagonal are read.
Eigvalsh(rho) ==
  LET n == Len(rho)
      diagonal == \A r \in 1..n : \A c \in 1..(r - 1) : rho[r][c] = ZMk(0, 0)
  IN IF diagonal THEN SortAscending([r \in 1..n |-> rho[r][r][1]])
     ELSE LET a == rho[1][1][1]
              d == rho[2][2][1]
              b == rho[2][1]
              mean == FMul(Fin(SCALE \div 2), FAdd(a, d))
              half == FMul(Fin(SCALE \div 2), FSub(a, d))
              root == FSqrt(FAdd(FMul(half, half),
                                 FAdd(FMul(b[1], b[1]), FMul(b[2], b[2]))))
          IN <<FSub(mean, root), FAdd(mean, root)>>

\* The threshold 1e-12 of the filter, in units.
EigenvalueFloor == Fin(0)

\* eigenvalues > 1e-12
AboveFloorBad(lambda) == ~IsNaN(lambda)

AboveFloor(lambda) == FLt(EigenvalueFloor, lambda)

\* np.sum of a sequence of floats (0.0 for the empty one).
RECURSIVE Sum(_)
Sum(seq) == IF seq = <<>> THEN Fin(0) ELSE FAdd(Head(seq), Sum(Tail(seq)))

\* -np.sum(eigenvalues * np.log(eigenvalues))
EntropySumBad(eigenvalues) ==
  Sum([k \in 1..Len(eigenvalues) |-> FMul(eigenvalues[k], Ln(eigenvalues[k]))])

EntropySum(eigenvalues) ==
  FNeg(Sum([k \in 1..Len(eigenvalues) |-> FMul(eigenvalues[k], Ln(eigenvalues[k]))]))

\* The largest dimension of a density matrix.
MaxDim == 3

\* State vectors of unit norm (two components, and the first basis vector
\* of every dimension), and the density matrices built from them.
UnitStates ==
  {<<ZMk(SCALE, 0), ZMk(0, 0)>>, <<ZMk(0, 0), ZMk(SCALE, 0)>>,
   <<ZMk(600, 0), ZMk(800, 0)>>, <<ZMk(800, 0), ZMk(-600, 0)>>,
   <<ZMk(600, 0), ZMk(0, 800)>>, <<ZMk(0, -800), ZMk(600, 0)>>}
    \cup {[k \in 1..d |-> IF k = 1 THEN ZMk(SCALE, 0) ELSE ZMk(0, 0)] : d \in 1..MaxDim}
PureStates == {Outer(state) : state \in UnitStates}
MaximallyMixed == {ScaledEye(FDiv(Fin(SCALE), Fin(d * SCALE)), d) : d \in 1..MaxDim}
MixedStates ==
  {Mix(p, A, B) : p \in {Fin(250), Fin(500)},
                  A \in {R \in PureStates : Len(R) = 2},
                  B \in {R \in PureStates : Len(R) = 2}}
DensityMatrices == PureStates \cup MaximallyMixed \cup MixedStates

\* von_neumann_entropy(rho) is called.
EntropyCall(rho) ==
  /\ m_pc = "idle"
  /\ m_pc' = "entropy"
  /\ spectrum' = [rho |-> rho, stage |-> "called"]
  /\ UNCHANGED <<su2, fold, fractals, kahler, depth3, process, kept>>

\* eigenvalues = np.linalg.eigvalsh(rho)
EntropyEig ==
  /\ m_pc = "entropy" /\ spectrum.stage = "called"
  /\ spectrum' = [rho |-> spectrum.rho, stage |-> "eigenvalues",
                  eigenvalues |-> Eigvalsh(spectrum.rho)]
  /\ UNCHANGED <<m_pc, su2, fold, fractals, kahler, depth3, process, kept>>

\* eigenvalues = eigenvalues[eigenvalues > 1e-12]
EntropyFilter ==
  /\ m_pc = "entropy" /\ spectrum.stage = "eigenvalues"
  /\ spectrum' = [spectrum EXCEPT
                    !.stage = "filtered",
                    !.eigenvalues = SelectSeq(@, AboveFloor)]
  /\ UNCHANGED <<m_pc, su2, fold, fractals, kahler, depth3, process, kept>>

\* return -np.sum(eigenvalues * np.log(eigenvalues))
EntropyReturn ==
  /\ m_pc = "entropy" /\ spectrum.stage = "filtered"
  /\ spectrum' = [rho |-> spectrum.rho, stage |-> "returned",
                  eigenvalues |-> spectrum.eigenvalues,
                  entropy |-> EntropySum(spectrum.eigenvalues)]
  /\ UNCHANGED <<m_pc, su2, fold, fractals, kahler, depth3, process, kept>>

\* The caller has used the entropy.
EntropyDone ==
  /\ m_pc = "entropy" /\ spectrum.stage = "returned"
  /\ m_pc' = "idle"
  /\ spectrum' = NoCall
  /\ UNCHANGED <<su2, fold, fractals, kahler, depth3, process, kept>>

(***************************************************************************)
(* Matrix functions: su2_rotation, apply_holonomy, layer_hopping_holonomy  *)
(***************************************************************************)

\* su2_rotation(theta, axis): the axis is normalised, a = cos(theta / 2),
\* (b, c, d) = -1j * axis * sin(theta / 2), and the matrix is
\* [[a + b, c + 1j * d], [-c + 1j * d, a - b]].
su2_rotation(theta, axis) ==
  LET nrm  == FSqrt(FAdd(FAdd(FMul(axis[1], axis[1]), FMul(axis[2], axis[2])),
                         FMul(axis[3], axis[3])))
      unit == [k \in 1..3 |-> FDiv(axis[k], nrm)]
      half == FDiv(theta, Fin(2 * SCALE))
      a    == <<Cos(half), Fin(0)>>
      comp(k) == ZMul(ZMk(0, -SCALE), <<FMul(unit[k], Sin(half)), Fin(0)>>)
      b    == comp(1)
      c    == comp(2)
      d    == comp(3)
      jd   == ZMul(ZMk(0, SCALE), d)
  IN <<<<ZAdd(a, b), ZAdd(c, jd)>>, <<ZAdd(ZNeg(c), jd), ZSub(a, b)>>>>

\* The angles and axes su2_rotation is called with.
Thetas == {Fin(0), Fin(SCALE), Fin(HALF_PI), Fin(PI), Fin(-HALF_PI)}
Axes ==
  {<<Fin(SCALE), Fin(0), Fin(0)>>, <<Fin(0), Fin(SCALE), Fin(0)>>,
   <<Fin(0), Fin(0), Fin(SCALE)>>, <<Fin(0), Fin(0), Fin(2 * SCALE)>>,
   <<Fin(600), Fin(800), Fin(0)>>, <<Fin(0), Fin(0), Fin(0)>>}

\* su2_rotation(theta, axis) is called and returns its matrix.
Su2Call(theta, axis) ==
  /\ m_pc = "idle"
  /\ m_pc' = "su2"
  /\ su2' = [theta |-> theta, axis |-> axis, U |-> su2_rotation(theta, axis)]
  /\ UNCHANGED <<spectrum, fold, fractals, kahler, depth3, process, kept>>

\* The caller has used the matrix.
Su2Done ==
  /\ m_pc = "su2"
  /\ m_pc' = "idle"
  /\ su2' = NoCall
  /\ UNCHANGED <<spectrum, fold, fractals, kahler, depth3, process, kept>>

\* np.eye(3) and the product A @ B of 3 x 3 matrices.
Eye3 ==
  [r \in 1..3 |-> [c \in 1..3 |-> IF r = c THEN Fin(SCALE) ELSE Fin(0)]]
MatMul3(A, B) ==
  [r \in 1..3 |-> [c \in 1..3 |->
     FAdd(FAdd(FMul(A[r][1], B[1][c]), FMul(A[r][2], B[2][c])),
          FMul(A[r][3], B[3][c]))]]

\* rotation_matrix_3d(theta, axis)
rotation_matrix_3d(theta, axis) ==
  LET cs == Cos(theta)
      sn == Sin(theta)
      one == Fin(SCALE)
      zero == Fin(0)
  IN CASE axis = "x" -> <<<<one, zero, zero>>, <<zero, cs, FNeg(sn)>>, <<zero, sn, cs>>>>
       [] axis = "y" -> <<<<cs, zero, sn>>, <<zero, one, zero>>, <<FNeg(sn), zero, cs>>>>
       [] axis = "z" -> <<<<cs, FNeg(sn), zero>>, <<sn, cs, zero>>, <<zero, zero, one>>>>

\* reflection_matrix(axis): np.diag with -1 at the axis.
reflection_matrix(axis) ==
  LET at == CASE axis = "x" -> 1 [] axis = "y" -> 2 [] axis = "z" -> 3
  IN [r \in 1..3 |-> [c \in 1..3 |->
        IF r # c THEN Fin(0) ELSE IF r = at THEN Fin(-SCALE) ELSE Fin(SCALE)]]

\* The body of apply_holonomy's loop for one segment: a fold multiplies T
\* from the left by R, or by S @ R when the depth is even; any other
\* segment leaves T alone.
ApplySegment(T, segment, depth) ==
  IF segment.type = "fold"
  THEN LET theta == FMul(Fin(HALF_PI), Fin(depth * SCALE))
           R == rotation_matrix_3d(theta, segment.axis)
       IN IF depth % 2 = 0
          THEN MatMul3(MatMul3(reflection_matrix(segment.axis), R), T)
          ELSE MatMul3(R, T)
  ELSE T

\* The body of layer_hopping_holonomy's loop for one segment: a hop scales
\* T by 1/3 (direction 'in') or by 3, a fold acts as in apply_holonomy.
HopSegmentBad(T, segment, depth) ==
  IF segment.type = "hop"
  THEN LET scale_factor == IF segment.direction = "in"
                           THEN FDiv(Fin(SCALE), Fin(3 * SCALE)) ELSE Fin(3 * SCALE)
           D == [r \in 1..3 |-> [c \in 1..3 |-> IF r = c THEN scale_factor ELSE Fin(0)]]
       IN MatMul3(D, T)
  ELSE IF segment.type = "fold"
  THEN LET theta == FMul(Fin(HALF_PI), Fin(depth * SCALE))
           R == rotation_matrix_3d(theta, segment.axis)
       IN IF depth % 2 = 0
          THEN MatMul3(MatMul3(T, reflection_matrix(segment.axis)), R)
          ELSE MatMul3(T, R)
  ELSE T

HopSegment(T, segment, depth) ==
  IF segment.type = "hop"
  THEN LET scale_factor == IF segment.direction = "in"
                           THEN FDiv(Fin(SCALE), Fin(3 * SCALE)) ELSE Fin(3 * SCALE)
           D == [r \in 1..3 |-> [c \in 1..3 |-> IF r = c THEN scale_factor ELSE Fin(0)]]
       IN MatMul3(D, T)
  ELSE IF segment.type = "fold"
  THEN LET theta == FMul(Fin(HALF_PI), Fin(depth * SCALE))
           R == rotation_matrix_3d(theta, segment.axis)
       IN IF depth % 2 = 0
          THEN MatMul3(MatMul3(reflection_matrix(segment.axis), R), T)
          ELSE MatMul3(R, T)
  ELSE T

\* The longest path and the largest depth the two functions are given.
MaxPathLen == 2
MaxFoldDepth == 3

\* Path segments and paths.
Folds == {[type |-> "fold", axis |-> ax] : ax \in {"x", "y", "z"}}
Hops == {[type |-> "hop", direction |-> dir] : dir \in {"in", "out"}}
Paths == UNION {[1..n -> Folds \cup Hops] : n \in 0..MaxPathLen}

\* apply_holonomy(path, depth) and layer_hopping_holonomy(path, depth) are
\* both called with one path and depth: each starts from T = np.eye(3).
FoldCall(path, depth) ==
  /\ m_pc = "idle"
  /\ m_pc' = "fold"
  /\ fold' = [path |-> path, depth |-> depth,
              apply_k |-> 0, apply_T |-> Eye3,
              hop_k |-> 0, hop_T |-> Eye3]
  /\ UNCHANGED <<spectrum, su2, fractals, kahler, depth3, process, kept>>

\* One iteration of the loop of apply_holonomy.
ApplyStep ==
  /\ m_pc = "fold"
  /\ fold.apply_k < Len(fold.path)
  /\ fold' = [fold EXCEPT
                !.apply_k = @ + 1,
                !.apply_T = ApplySegment(@, fold.path[fold.apply_k + 1], fold.depth)]
  /\ UNCHANGED <<m_pc, spectrum, su2, fractals, kahler, depth3, process, kept>>

\* One iteration of the loop of layer_hopping_holonomy.
HopStep ==
  /\ m_pc = "fold"
  /\ fold.hop_k < Len(fold.path)
  /\ fold' = [fold EXCEPT
                !.hop_k = @ + 1,
                !.hop_T = HopSegment(@, fold.path[fold.hop_k + 1], fold.depth)]
  /\ UNCHANGED <<m_pc, spectrum, su2, fractals, kahler, depth3, process, kept>>

\* Both functions have returned and the caller has used the matrices.
FoldDone ==
  /\ m_pc = "fold"
  /\ fold.apply_k = Len(fold.path) /\ fold.hop_k = Len(fold.path)
  /\ m_pc' = "idle"
  /\ fold' = NoCall
  /\ UNCHANGED <<spectrum, su2, fractals, kahler, depth3, process, kept>>

NextMatrices ==
  \/ \E rho \in DensityMatrices : EntropyCall(rho)
  \/ EntropyEig
  \/ EntropyFilter
  \/ EntropyReturn
  \/ EntropyDone
  \/ \E theta \in Thetas, axis \in Axes : Su2Call(theta, axis)
  \/ Su2Done
  \/ \E path \in Paths, depth \in 0..MaxFoldDepth : FoldCall(path, depth)
  \/ ApplyStep
  \/ HopStep
  \/ FoldDone

SpecMatrices == Init /\ [][NextMatrices]_vars

(***************************************************************************)
(* Properties of parallel_transport and compute_holonomy                   *)
(***************************************************************************)

\* A compute_holonomy call with steps >= 2 has returned its result.
HolonomyReturned ==
  pc = "returned" /\ ret.kind = "holonomy" /\ call.steps >= 2

\* The last trajectory sample of the returned result.
FinalVector == <<ret.vx[call.steps - 1], ret.vy[call.steps - 1]>>

\* Sample j+1 of the trajectory (txs, pts, vxs, vys) is the forward Euler
\* update of sample j with the connection sampled at the path point pts[j].
EulerSample(txs, pts, vxs, vys, j) ==
  LET dt == FSub(txs[j + 1], txs[j])
      Gam == get_christoffel(x, y, size, Gamma, pts[j][1], pts[j][2])
      dxdt == PathVelocity(pts, j, 1, dt)
      dydt == PathVelocity(pts, j, 2, dt)
  IN /\ vxs[j + 1] =
          FAdd(vxs[j], FMul(dt, FNeg(FMul(FMul(Gam.Gamma_x_xx, vxs[j]), dxdt))))
     /\ vys[j + 1] =
          FAdd(vys[j], FMul(dt, FNeg(FMul(FMul(Gam.Gamma_y_yy, vys[j]), dydt))))

\* C1: parallel_transport integrates by explicit forward Euler: every sample
\* computed so far, and every sample of a returned trajectory, is
\* v[j] + dt * (-Gamma(p_j) * v[j] * dp/dt_j) per component, with
\* dt = t[j+1] - t[j] and the connection sampled at the j-th path point, so
\* that sample j+1 is a function of sample j alone.
C1_ForwardEuler ==
  /\ pc = "transport" =>
       \A j \in 0..(i - 1) : EulerSample(t_span, points, vx, vy, j)
  /\ (pc = "returned" /\ ret.kind \in {"transport", "holonomy"}) =>
       \A j \in 0..(call.steps - 2) :
          EulerSample(TSpan(call.steps), ret.points, ret.vx, ret.vy, j)

\* Two loop iterations have run and both changed the vector.
C1_Witness ==
  /\ pc = "transport" /\ i = 2
  /\ IsFin(vx[2]) /\ IsFin(vy[2])
  /\ vx[1] # vx[0] /\ vx[2] # vx[1]
  /\ vy[1] # vy[0] /\ vy[2] # vy[1]

\* C2: compute_holonomy returns arccos(clip(v0.vf / (|v0| |vf|), -1, 1)) for
\* the last trajectory sample vf, negated exactly when the cross product
\* v0x * vfy - v0y * vfx is negative, and the rotation matrix
\* [[cos a, -sin a], [sin a, cos a]] of that signed angle a.
C2_HolonomyFormula ==
  HolonomyReturned =>
    LET v0 == call.initial_vector
        vf == FinalVector
        unsigned == ArcCos(Clip(FDiv(Dot(v0, vf), FMul(Norm(v0), Norm(vf))),
                                Fin(-SCALE), Fin(SCALE)))
        cross == FSub(FMul(v0[1], vf[2]), FMul(v0[2], vf[1]))
        a == ret.angle
    IN /\ FLt(cross, Fin(0)) => a = FNeg(unsigned)
       /\ ~FLt(cross, Fin(0)) => a = unsigned
       /\ ret.rot = <<<<Cos(a), FNeg(Sin(a))>>, <<Sin(a), Cos(a)>>>>

\* A holonomy whose angle was negated by a negative cross product.
C2_Witness ==
  /\ HolonomyReturned
  /\ IsFin(ret.angle) /\ ret.angle.v < 0
  /\ ret.rot[2][1].v < 0

\* a is finite and within tol units of the value n.
Within(a, n, tol) == IsFin(a) /\ Abs(a.v - n) <= tol

\* The smallest angle a in lo..hi with sin(a) >= s (sin is increasing there).
RECURSIVE ArcSinIn(_, _, _)
ArcSinIn(s, lo, hi) ==
  IF lo >= hi THEN lo
  ELSE LET mid == (lo + hi) \div 2
       IN IF SinV(mid) >= s THEN ArcSinIn(s, lo, mid) ELSE ArcSinIn(s, mid + 1, hi)

\* atan2(sn, cs) of a finite pair (sn, cs) # (0, 0), in units: the arcsine of
\* the smaller normalised component, placed in the quadrant of (cs, sn).
ArcTan2V(sn, cs) ==
  LET h == ISqrt(sn * sn + cs * cs)
      first == IF Abs(sn) <= Abs(cs)
               THEN ArcSinIn(RoundDiv(Abs(sn) * SCALE, h), 0, HALF_PI)
               ELSE HALF_PI - ArcSinIn(RoundDiv(Abs(cs) * SCALE, h), 0, HALF_PI)
      upper == IF cs >= 0 THEN first ELSE PI - first
  IN IF sn >= 0 THEN upper ELSE -upper

\* The distance of two angles on the circle, in units.
AngleDistance(a, b) ==
  LET d == Abs(a - b) % TWO_PI
  IN IF d > PI THEN TWO_PI - d ELSE d

\* Every connection value of the manifold is finite: its metric had no
\* singular cell.
RegularConnection ==
  \A iy \in 0..(size - 1), ix \in 0..(size - 1) :
     IsFin(Gamma.Gamma_x_xx[iy][ix]) /\ IsFin(Gamma.Gamma_y_yy[iy][ix])

\* C3 as stated: the angle compute_holonomy returns for steps >= 2 is a
\* number of the half-open interval (-pi, pi]; -pi is never returned.  (It
\* is stated here for manifolds with a finite connection only, to keep the
\* singular metrics of C10 out of it; so are C4, C5 and C6.)
C3_AngleInHalfOpenInterval ==
  (HolonomyReturned /\ RegularConnection) =>
    IsFin(ret.angle) /\ -PI < ret.angle.v /\ ret.angle.v <= PI

\* C4 as stated: the returned matrix R is orthogonal, R^T R = I.  The
\* tolerance is four rounding units of the model, where the claim allows
\* 1e-6 against float64's 1e-16.
C4_RotationOrthogonal ==
  (HolonomyReturned /\ RegularConnection) =>
    LET R == ret.rot
        RtR(a, b) == FAdd(FMul(R[1][a], R[1][b]), FMul(R[2][a], R[2][b]))
    IN /\ Within(RtR(1, 1), SCALE, 4) /\ Within(RtR(2, 2), SCALE, 4)
       /\ Within(RtR(1, 2), 0, 4) /\ Within(RtR(2, 1), 0, 4)

\* C5 as stated: decomposing the returned matrix, atan2(R[1][0], R[0][0]),
\* gives the returned angle again (to four rounding units, and taking -pi
\* and pi, the same rotation, as the same angle).
C5_RoundTrip ==
  (HolonomyReturned /\ RegularConnection) =>
    /\ IsFin(ret.angle) /\ IsFin(ret.rot[2][1]) /\ IsFin(ret.rot[1][1])
    /\ AngleDistance(ArcTan2V(ret.rot[2][1].v, ret.rot[1][1].v), ret.angle.v) <= 4

\* C6 as stated: the value passed to arccos lies in [-1, 1] and the returned
\* angle is a finite number, whatever the initial and the final vector.
C6_AngleFinite ==
  (HolonomyReturned /\ RegularConnection) =>
    LET v0 == call.initial_vector
        cos_theta == Clip(FDiv(Dot(v0, FinalVector), FMul(Norm(v0), Norm(FinalVector))),
                          Fin(-SCALE), Fin(SCALE))
    IN /\ FLe(Fin(-SCALE), cos_theta) /\ FLe(cos_theta, Fin(SCALE))
       /\ IsFin(ret.angle)

\* C10 as stated: a metric with a cell g = 0 (|g| below every tolerance)
\* makes construction raise; no manifold is left with such a cell, nor with
\* a connection value that is not finite.
C10_SingularMetricRaises ==
  (pc # "new" /\ pc # "failed") =>
    \A iy \in 0..(size - 1), ix \in 0..(size - 1) :
       /\ g[iy][ix] # Fin(0)
       /\ IsFin(Gamma.Gamma_x_xx[iy][ix])
       /\ IsFin(Gamma.Gamma_y_yy[iy][ix])

(***************************************************************************)
(* Properties of run_depth3_simulation                                     *)
(***************************************************************************)

\* C7: the total holonomy matrix of loops traversed in the order 1, 2, 3 is
\* the product M3 * M2 * M1 of the per-loop matrices, the matrix of the loop
\* traversed last on the left.
C7_TotalMatrixReverseOrder ==
  d_pc = "done" =>
    LET M1 == results["loop1"].matrix
        M2 == results["loop2"].matrix
        M3 == results["loop3"].matrix
    IN results["total"].matrix = MatMul(M3, MatMul(M2, M1))

\* A finished run whose matrices do not commute: M3*M2*M1 # M1*M2*M3.
C7_Witness ==
  /\ d_pc = "done"
  /\ LET M1 == results["loop1"].matrix
         M2 == results["loop2"].matrix
         M3 == results["loop3"].matrix
     IN /\ results["total"].matrix = MatMul(M3, MatMul(M2, M1))
        /\ MatMul(M3, MatMul(M2, M1)) # MatMul(M1, MatMul(M2, M3))

\* C8: the loops are transported in the order loop1, loop2, loop3; the first
\* starts from the caller's initial vector and every later one from the last
\* trajectory sample of the loop before it.
C8_ChainedInitialVectors ==
  /\ Len(d_calls) = Len(d_rets)
  /\ \A k \in 1..Len(d_calls) :
       /\ d_calls[k].loop = <<"loop1", "loop2", "loop3">>[k]
       /\ k = 1 => d_calls[k].initial_vector = init_vec
       /\ k > 1 => d_calls[k].initial_vector =
                     <<d_rets[k - 1].v_z[Len(d_rets[k - 1].v_z)],
                       d_rets[k - 1].v_zc[Len(d_rets[k - 1].v_zc)]>>

\* Three loops have run, and the vectors handed on differ from the vectors
\* the loops before them were started with.
C8_Witness ==
  /\ Len(d_calls) = 3
  /\ d_calls[2].initial_vector # d_calls[1].initial_vector
  /\ d_calls[3].initial_vector # d_calls[2].initial_vector
  /\ d_calls[3].initial_vector # d_calls[1].initial_vector
  /\ current_vec # d_calls[3].initial_vector

\* The sum of the three per-loop angles, in degrees.
SumOfLoopAngles ==
  results["loop1"].angle_degrees + results["loop2"].angle_degrees
    + results["loop3"].angle_degrees

\* d degrees reduced modulo 360 into (-180, 180].
WrapDegrees(d) == 180 - ((180 - d) % 360)

\* C9 as stated: the reported total angle equals the sum of the per-loop
\* signed angles.
C9_TotalAngleIsSum ==
  d_pc = "done" => results["total"].angle_degrees = SumOfLoopAngles

\* C9 as amended: the reported total angle is the angle of the product of the
\* per-loop phase factors, which is the sum of the per-loop signed angles
\* reduced modulo 360 degrees into (-180, 180].
C9_TotalAngleIsWrappedSum ==
  d_pc = "done" =>
    /\ results["total"].phase =
         CMul(results["loop1"].phase, CMul(results["loop2"].phase, results["loop3"].phase))
    /\ results["total"].angle_degrees = WrapDegrees(SumOfLoopAngles)

\* A finished run whose per-loop angles sum to more than 180 degrees, all
\* three being non-zero.
C9_Witness ==
  /\ d_pc = "done"
  /\ SumOfLoopAngles > 180
  /\ \A k \in {"loop1", "loop2", "loop3"} : results[k].angle_degrees # 0
  /\ results["total"].angle_degrees = SumOfLoopAngles - 360

(***************************************************************************)
(* Properties of the manifold's preconditions and of get_christoffel       *)
(***************************************************************************)

TransportOps == {"parallel_transport", "compute_holonomy"}

\* C11 as stated: a parallel_transport or compute_holonomy call with
\* steps < 2 ends with an error and returns nothing.
C11_SmallStepsFail ==
  (pc = "returned" /\ call.op \in TransportOps /\ call.steps < 2) =>
    raised # "none" /\ ret = NoRet

\* The errors a check of the arguments raises, as opposed to the IndexError
\* of an array access.
PreconditionErrors == {"ValueError", "TypeError"}

\* C12 as stated: construction with size < 2 fails with a precondition error
\* raised before the grid and the potential are built and indexed.
C12_SizeFailsFast ==
  pc = "failed" =>
    raised \in PreconditionErrors /\ x = <<>> /\ y = <<>> /\ K = <<>>

\* A get_christoffel call has returned.
ChristoffelReturned == pc = "returned" /\ ret.kind = "christoffel"

\* Index j of the axis is a nearest sample to the coordinate c.
Nearest(axis, j, c) ==
  /\ j \in 0..(size - 1)
  /\ \A m \in 0..(size - 1) :
       FLe(FAbs(FSub(axis[j], c)), FAbs(FSub(axis[m], c)))

\* C13: get_christoffel(x, y) returns the two connection values of one cell
\* [iy, ix], whose column ix minimizes |x_grid - x| and whose row iy
\* minimizes |y_grid - y|, each along its own axis alone.
C13_NearestCell ==
  ChristoffelReturned =>
    /\ Nearest(x, ret.ix, call.x)
    /\ Nearest(y, ret.iy, call.y)
    /\ ret.Gamma_x_xx = Gamma.Gamma_x_xx[ret.iy][ret.ix]
    /\ ret.Gamma_y_yy = Gamma.Gamma_y_yy[ret.iy][ret.ix]

\* A lookup inside the grid whose row and column differ, on a manifold where
\* the transposed cell holds another value.
C13_Witness ==
  /\ ChristoffelReturned
  /\ FLt(x[0], call.x) /\ FLt(call.x, x[size - 1])
  /\ FLt(y[0], call.y) /\ FLt(call.y, y[size - 1])
  /\ ret.ix # ret.iy
  /\ IsFin(ret.Gamma_x_xx)
  /\ ret.Gamma_x_xx # Gamma.Gamma_x_xx[ret.ix][ret.iy]

\* C14: get_christoffel rejects no coordinate: a coordinate below the first
\* axis sample reads index 0, one above the last reads index size - 1, and
\* every index read lies in 0..size-1.
C14_ClampedToEdge ==
  ChristoffelReturned =>
    /\ raised = "none"
    /\ ret.ix \in 0..(size - 1) /\ ret.iy \in 0..(size - 1)
    /\ FLt(call.x, x[0]) => ret.ix = 0
    /\ FLt(x[size - 1], call.x) => ret.ix = size - 1
    /\ FLt(call.y, y[0]) => ret.iy = 0
    /\ FLt(y[size - 1], call.y) => ret.iy = size - 1

\* A lookup left of the grid and above it, on a grid with interior samples.
C14_Witness ==
  /\ ChristoffelReturned
  /\ size >= 3
  /\ FLt(call.x, x[0]) /\ ret.ix = 0
  /\ FLt(y[size - 1], call.y) /\ ret.iy = size - 1

(***************************************************************************)
(* Properties of the potential                                             *)
(***************************************************************************)

\* C15: two manifolds constructed with the same (size, fractal_level, scale)
\* have the same potential field K, however many manifolds were constructed
\* before and whatever the state of the process-wide generator was.
C15_PotentialDeterministic ==
  \A a \in 1..Len(built), b \in 1..Len(built) :
     (/\ built[a].size = built[b].size
      /\ built[a].fractal_level = built[b].fractal_level
      /\ built[a].scale = built[b].scale) => built[a].K = built[b].K

\* Two manifolds with the same arguments and a potential that is not zero,
\* built under different states of the process-wide generator.
C15_Witness ==
  \E a \in 1..Len(built), b \in 1..Len(built) :
     /\ a < b
     /\ built[a].size = built[b].size
     /\ built[a].fractal_level = built[b].fractal_level
     /\ built[a].scale = built[b].scale
     /\ built[a].np_random # built[b].np_random
     /\ built[b].K = built[a].K
     /\ built[a].K[0][0] # Fin(0)

\* C16: with fractal_level = 0 or scale = 0 (and a grid that can be built,
\* size >= 2) potential and metric generation raise nothing and every cell
\* of K and of g is exactly 0.
C16_ZeroField ==
  (pc # "new" /\ size >= 2 /\ (fractal_level = 0 \/ scale = Fin(0))) =>
    /\ pc # "failed"
    /\ \A iy \in 0..(size - 1), ix \in 0..(size - 1) :
         K[iy][ix] = Fin(0) /\ g[iy][ix] = Fin(0)

\* A manifold with a band in its potential, whose amplitude is 0.
C16_Witness ==
  /\ pc = "ready"
  /\ size >= 3 /\ fractal_level >= 1 /\ scale = Fin(0)
  /\ K[1][1] = Fin(0) /\ g[1][1] = Fin(0)

(***************************************************************************)
(* Properties of calls: frame, sampling, velocity, purity                  *)
(***************************************************************************)

\* C17: once constructed, the manifold is read-only: no step of a
\* get_christoffel, parallel_transport or compute_holonomy call changes an
\* attribute (size, fractal_level, scale, x, y, K, g, Gamma), and none is
\* added for the curve, the trajectory or the result.
C17_ManifoldReadOnly ==
  [][pc # "new" => manifold' = manifold]_vars

\* A compute_holonomy call has returned a transported vector that differs
\* from the initial one.
C17_Witness ==
  /\ HolonomyReturned
  /\ call.steps >= 3
  /\ IsFin(ret.angle)
  /\ FinalVector # call.initial_vector

\* A parallel_transport or compute_holonomy call with steps >= 2 has
\* returned.
TransportReturned ==
  pc = "returned" /\ ret.kind \in {"transport", "holonomy"} /\ call.steps >= 2

\* C18: a call with N steps has evaluated the curve once at each of the N
\* parameters k/(N-1), k = 0..N-1, in increasing order from 0 to 1 (to one
\* rounding unit), and returns N samples per vector component and N path
\* points, the k-th point being the curve's value at the k-th parameter.
C18_UniformSamples ==
  TransportReturned =>
    LET N == call.steps
        ev == call.evaluated
    IN /\ Len(ev) = N
       /\ ev[1] = Fin(0) /\ ev[N] = Fin(SCALE)
       /\ \A k \in 1..N : Within(ev[k], RoundDiv((k - 1) * SCALE, N - 1), 1)
       /\ \A k \in 1..(N - 1) : FLt(ev[k], ev[k + 1])
       /\ DOMAIN ret.vx = 0..(N - 1) /\ DOMAIN ret.vy = 0..(N - 1)
       /\ DOMAIN ret.points = 0..(N - 1)
       /\ \A k \in 1..N : ret.points[k - 1] = call.curve[ev[k].v]

\* A returned call with three or more samples along a curve that moves.
C18_Witness ==
  /\ TransportReturned
  /\ call.steps >= 3
  /\ ret.points[0] # ret.points[1]
  /\ ret.points[1] # ret.points[2]

\* The loop of parallel_transport has run all its iterations.
LoopDone == pc = "transport" /\ i = call.steps - 1

\* The differences of the path points pts along coordinate c.
ForwardDifference(pts, j, c, dt) == FDiv(FSub(pts[j + 1][c], pts[j][c]), dt)
CenteredDifference(pts, j, c, dt) ==
  FDiv(FSub(pts[j + 1][c], pts[j - 1][c]), FMul(Fin(2 * SCALE), dt))
BackwardDifference(pts, j, c, dt) == FDiv(FSub(pts[j][c], pts[j - 1][c]), dt)

\* The velocity estimated at sample j is the difference D of the points.
VelocityIs(D(_, _, _, _), j) ==
  /\ j \in DOMAIN velocity
  /\ LET dt == IF j + 1 \in DOMAIN t_span
               THEN FSub(t_span[j + 1], t_span[j])
               ELSE FSub(t_span[j], t_span[j - 1])
     IN velocity[j] = <<D(points, j, 1, dt), D(points, j, 2, dt)>>

\* C19 as stated: a velocity is estimated at each of the N samples: forward
\* at the first, centered at the interior ones, one-sided at the last.
C19_VelocityAtEachSample ==
  (LoopDone /\ call.steps >= 2) =>
    /\ VelocityIs(ForwardDifference, 0)
    /\ \A j \in 1..(call.steps - 2) : VelocityIs(CenteredDifference, j)
    /\ VelocityIs(BackwardDifference, call.steps - 1)

\* C19 as amended: a velocity is estimated at the samples 0..N-2 only, one
\* per loop iteration: forward at the first sample, centered at every later
\* one; none is estimated at the last sample N-1.
C19_VelocityBeforeLast ==
  pc = "transport" =>
    /\ DOMAIN velocity = 0..(i - 1)
    /\ i <= call.steps - 1
    /\ i >= 1 => VelocityIs(ForwardDifference, 0)
    /\ \A j \in 1..(i - 1) : VelocityIs(CenteredDifference, j)

\* The loop has finished on three or more samples, and the centered
\* difference at the sample before the last is not the one-sided one.
C19_Witness ==
  /\ LoopDone
  /\ call.steps >= 3
  /\ VelocityIs(CenteredDifference, call.steps - 2)
  /\ ~VelocityIs(ForwardDifference, call.steps - 2)
  /\ ~VelocityIs(BackwardDifference, call.steps - 2)
  /\ (call.steps - 1) \notin DOMAIN velocity

\* C20: a call that repeats a kept call on the same manifold (same operation,
\* curve, initial vector and steps) returns what the kept call returned:
\* angle, matrix, trajectory and path points, whatever was called in between.
C20_CallsArePure ==
  (pc = "returned" /\ kept # NoKept /\ call = kept.call) => ret = kept.ret

\* A kept compute_holonomy call has been repeated and has returned, with an
\* angle that is not zero.
C20_Witness ==
  /\ pc = "returned"
  /\ kept # NoKept
  /\ call = kept.call
  /\ ret = kept.ret
  /\ ret.kind = "holonomy"
  /\ IsFin(ret.angle) /\ ret.angle # Fin(0)

(***************************************************************************)
(* Properties of the lattice generators and of the walk                    *)
(***************************************************************************)

\* Index n falls in a middle third at one of the levels base-3 digits.
RECURSIVE InMiddleThird(_, _)
InMiddleThird(n, levels) ==
  IF levels = 0 THEN FALSE
  ELSE n % 3 = 1 \/ InMiddleThird(n \div 3, levels - 1)

\* C23 as stated: the mask of a level is square of side 3 ** level, and a
\* site is True only if neither its row nor its column index falls in a
\* middle third at any level (at level 0 the single site is True).
C23_CantorDust ==
  f_pc = "cantor" =>
    LET side == Pow3(cantor.level)
    IN /\ DOMAIN cantor.mask = 0..(side - 1)
       /\ \A r \in 0..(side - 1) :
            /\ DOMAIN cantor.mask[r] = 0..(side - 1)
            /\ \A c \in 0..(side - 1) :
                 cantor.mask[r][c] =>
                   (~InMiddleThird(r, cantor.level) /\ ~InMiddleThird(c, cantor.level))
       /\ cantor.level = 0 => cantor.mask[0][0]

\* 20 ** l
RECURSIVE Pow20(_)
Pow20(l) == IF l = 0 THEN 1 ELSE 20 * Pow20(l - 1)

\* C24 as stated: after l refinements the sponge has 20 ** l cubes, each of
\* side 3 ** -l.
C24_MengerSponge ==
  f_pc = "menger" =>
    /\ Len(sponge.cubes) = Pow20(sponge.round)
    /\ \A q \in 1..Len(sponge.cubes) :
         Within(sponge.cubes[q].size, RoundDiv(SCALE, Pow3(sponge.round)), 1)

\* C28 as stated: every walker is inside the lattice and on an occupied
\* site, and its position is the last entry of its path.
C28_WalkerOnLattice ==
  f_pc = "walk" =>
    \A k \in 1..NumWalkers :
       LET w == walk.walkers[k]
       IN /\ 0 <= w.x /\ w.x < walk.grid_size
          /\ 0 <= w.y /\ w.y < walk.grid_size
          /\ Lattice(walk.depth, w.x, w.y)
          /\ w.path[Len(w.path)] = <<w.x, w.y>>

(***************************************************************************)
(* Properties of the matrix functions                                      *)
(***************************************************************************)

\* von_neumann_entropy has returned.
EntropyReturned == m_pc = "entropy" /\ spectrum.stage = "returned"

\* C21: the entropy of the density matrix |psi><psi| of a unit vector psi is
\* 0 (to four rounding units): the eigenvalues that are not above the floor
\* have been dropped, so that no logarithm of 0 is taken.
C21_PureStateEntropyZero ==
  (EntropyReturned /\ spectrum.rho \in PureStates) =>
    /\ Within(spectrum.entropy, 0, 4)
    /\ \A k \in 1..Len(spectrum.eigenvalues) :
         FLt(Fin(0), spectrum.eigenvalues[k]) /\ IsFin(Ln(spectrum.eigenvalues[k]))

\* The entropy of a pure state that is not a basis state has been returned,
\* and its zero eigenvalue had been dropped.
C21_Witness ==
  /\ EntropyReturned
  /\ spectrum.rho \in PureStates
  /\ Len(spectrum.rho) = 2
  /\ spectrum.rho[2][1] # ZMk(0, 0)
  /\ Eigvalsh(spectrum.rho)[1] = Fin(0)
  /\ Len(spectrum.eigenvalues) = 1
  /\ spectrum.entropy = Fin(0)

\* ln(d) in units.
LnOf(d) ==
  CASE d = 1 -> 0
    [] d = 2 -> 693
    [] d = 3 -> 1099
    [] d = 4 -> 1386
    [] OTHER -> 1609

\* C22: the entropy of the maximally mixed state I/d is ln(d) (to four
\* rounding units), and the entropy of every density matrix is minus the
\* sum of lambda * ln(lambda) over its eigenvalues lambda above the floor.
C22_EntropyFormula ==
  EntropyReturned =>
    LET rho == spectrum.rho
        d == Len(rho)
        above == SelectSeq(Eigvalsh(rho), LAMBDA l : FLt(Fin(0), l))
        terms == [k \in 1..Len(above) |-> FMul(above[k], Ln(above[k]))]
    IN /\ spectrum.entropy = FSub(Fin(0), Sum(terms))
       /\ rho \in MaximallyMixed => Within(spectrum.entropy, LnOf(d), 4)

\* The entropy of I/d for the largest dimension has been returned.
C22_Witness ==
  /\ EntropyReturned
  /\ spectrum.rho \in MaximallyMixed
  /\ Len(spectrum.rho) = MaxDim
  /\ Len(spectrum.eigenvalues) = MaxDim
  /\ Within(spectrum.entropy, LnOf(MaxDim), 4)

\* The entry (r, c) of U^dagger U and the determinant of a 2 x 2 matrix U.
DaggerProduct(U, r, c) ==
  ZAdd(ZMul(ZConj(U[1][r]), U[1][c]), ZMul(ZConj(U[2][r]), U[2][c]))
Det2(U) == ZSub(ZMul(U[1][1], U[2][2]), ZMul(U[1][2], U[2][1]))

\* z is finite and within tol units of re + 0j.
ZWithin(z, re, tol) == Within(z[1], re, tol) /\ Within(z[2], 0, tol)

\* C25 as stated: for every angle and every non-zero axis the matrix U that
\* su2_rotation returns is unitary and has determinant 1 (to four rounding
\* units).
C25_SpecialUnitary ==
  (m_pc = "su2" /\ su2.axis # <<Fin(0), Fin(0), Fin(0)>>) =>
    /\ ZWithin(DaggerProduct(su2.U, 1, 1), SCALE, 4)
    /\ ZWithin(DaggerProduct(su2.U, 2, 2), SCALE, 4)
    /\ ZWithin(DaggerProduct(su2.U, 1, 2), 0, 4)
    /\ ZWithin(DaggerProduct(su2.U, 2, 1), 0, 4)
    /\ ZWithin(Det2(su2.U), SCALE, 4)

\* Both holonomy functions have finished their loops.
FoldReturned ==
  m_pc = "fold" /\ fold.apply_k = Len(fold.path) /\ fold.hop_k = Len(fold.path)

\* The product of the fold matrices of the first n segments of a path of
\* folds, each multiplied from the left in path order: R for an odd depth,
\* S * R for an even one, starting from the identity.
RECURSIVE FoldProduct(_, _, _)
FoldProduct(path, n, depth) ==
  IF n = 0 THEN Eye3
  ELSE LET R == rotation_matrix_3d(Fin(depth * HALF_PI), path[n].axis)
           S == reflection_matrix(path[n].axis)
           M == IF depth % 2 = 1 THEN R ELSE MatMul3(S, R)
       IN MatMul3(M, FoldProduct(path, n - 1, depth))

\* C29: for a path of 'fold' segments only, layer_hopping_holonomy and
\* apply_holonomy return the same matrix, the product of the fold matrices
\* in path order; the empty path gives the identity in both.
C29_FoldPathsAgree ==
  (FoldReturned /\ \A k \in 1..Len(fold.path) : fold.path[k].type = "fold") =>
    /\ fold.hop_T = fold.apply_T
    /\ fold.hop_T = FoldProduct(fold.path, Len(fold.path), fold.depth)
    /\ fold.path = <<>> => fold.hop_T = Eye3

\* Both functions have returned for a path of two folds about different
\* axes, whose matrices do not commute.
C29_Witness ==
  /\ FoldReturned
  /\ Len(fold.path) >= 2
  /\ \A k \in 1..Len(fold.path) : fold.path[k].type = "fold"
  /\ fold.path[1].axis # fold.path[2].axis
  /\ fold.hop_T = fold.apply_T
  /\ fold.hop_T # FoldProduct(<<fold.path[2], fold.path[1]>>, 2, fold.depth)

(***************************************************************************)
(* Further properties of parallel_transport and compute_holonomy           *)
(***************************************************************************)

\* The connection values read at the first n path points pts[0..n-1] are
\* finite.
FiniteAlong(pts, n) ==
  \A j \in 0..(n - 1) :
     LET Gam == get_christoffel(x, y, size, Gamma, pts[j][1], pts[j][2])
     IN IsFin(Gam.Gamma_x_xx) /\ IsFin(Gam.Gamma_y_yy)

\* Component c of the initial vector is 0 and so is component c of the
\* first n + 1 samples of the trajectory (vxs, vys).
StaysZero(v0, vxs, vys, n) ==
  /\ v0[1] = Fin(0) => \A j \in 0..n : vxs[j] = Fin(0)
  /\ v0[2] = Fin(0) => \A j \in 0..n : vys[j] = Fin(0)

\* The initial vector has exactly one zero component.
OneZeroComponent(v0) == (v0[1] = Fin(0)) # (v0[2] = Fin(0))

\* C26 as stated: a component of the initial vector that is 0 is 0 at every
\* trajectory sample, during the loop and in the returned trajectory; and
\* for an initial vector with one zero component, finite connection values
\* along the path and a non-zero final vector, compute_holonomy returns
\* angle 0 or angle pi.
C26_ZeroComponentStaysZero ==
  /\ pc = "transport" => StaysZero(call.initial_vector, vx, vy, i)
  /\ (pc = "returned" /\ ret.kind \in {"transport", "holonomy"} /\ call.steps >= 1) =>
       StaysZero(call.initial_vector, ret.vx, ret.vy, call.steps - 1)
  /\ (/\ HolonomyReturned
      /\ OneZeroComponent(call.initial_vector)
      /\ FiniteAlong(ret.points, call.steps - 1)
      /\ FinalVector # <<Fin(0), Fin(0)>>) =>
       ret.angle \in {Fin(0), Fin(PI)}

\* The call that has returned has the arguments of the kept call, and one
\* of the two is parallel_transport and the other compute_holonomy.
SameArguments ==
  /\ kept # NoKept
  /\ pc = "returned" /\ ret.kind \in {"transport", "holonomy"}
  /\ kept.call.op # call.op
  /\ kept.call.curve = call.curve
  /\ kept.call.initial_vector = call.initial_vector
  /\ kept.call.steps = call.steps

\* C27: for steps >= 1 the first sample of a returned trajectory is the
\* given initial vector; compute_holonomy returns the trajectory and the
\* path points parallel_transport returns for the same arguments; and the
\* magnitude of its angle is the arccos of the clipped cosine between the
\* given initial vector and the last sample of that trajectory.
C27_HolonomyUsesTransport ==
  /\ (pc = "returned" /\ ret.kind \in {"transport", "holonomy"} /\ call.steps >= 1) =>
       <<ret.vx[0], ret.vy[0]>> = call.initial_vector
  /\ SameArguments =>
       /\ ret.vx = kept.ret.vx /\ ret.vy = kept.ret.vy
       /\ ret.points = kept.ret.points
  /\ (pc = "returned" /\ ret.kind = "holonomy" /\ call.steps >= 1) =>
       LET v0 == call.initial_vector
           last == <<ret.vx[call.steps - 1], ret.vy[call.steps - 1]>>
           cos_theta == Clip(FDiv(Dot(v0, last), FMul(Norm(v0), Norm(last))),
                             Fin(-SCALE), Fin(SCALE))
       IN FAbs(ret.angle) = ArcCos(cos_theta)

\* compute_holonomy has returned a trajectory of several samples that ends
\* away from the initial vector, with a non-zero angle, after
\* parallel_transport had returned for the same arguments.
C27_Witness ==
  /\ SameArguments
  /\ call.op = "compute_holonomy"
  /\ call.steps = MaxSteps
  /\ <<ret.vx[call.steps - 1], ret.vy[call.steps - 1]>> # call.initial_vector
  /\ IsFin(ret.angle) /\ ret.angle # Fin(0)
  /\ ret.vx = kept.ret.vx /\ ret.vy = kept.ret.vy /\ ret.points = kept.ret.points

====
